---- MODULE Spec2Model ----
(***************************************************************************)
(* A model of the ha_switchplate custom component                          *)
(* (src/Home_Assistant/custom_components/ha_switchplate.py): the setup     *)
(* that builds the device registry and subscribes the individual nodes,    *)
(* the handler of inbound state messages, and the update_colors and        *)
(* update_message services.                                                *)
(*                                                                         *)
(* Python values are modelled as follows.  A str is a TLA+ string.  An     *)
(* optional value (a key a dict may lack, a parameter that may be None)    *)
(* is a sequence of length at most one: << >> is None / absent, <<v>> is   *)
(* the value v.  A dict is a function whose DOMAIN is its key set,         *)
(* together with the sequence of its keys in insertion order where the     *)
(* code iterates over it.                                                  *)
(***************************************************************************)
EXTENDS Integers, Sequences, FiniteSets, TLC

VARIABLES
    nodes,        \* config[DOMAIN][CONF_NODE_LIST]: the list of {name, group_name?}
    pc,           \* position of async_setup
    idx,          \* index of the loop async_setup / _initialize_nodes is in
    devices,      \* async_setup's local dict  name -> HASwitchPlate
    devOrder,     \* the keys of devices in insertion order
    hassData,     \* hass.data[DATA_HA_SWITCHPLATE]: the process-wide registry
    subs,         \* the subscriptions mqtt.async_subscribe has accepted, in order
    services,     \* the service names registered under DOMAIN
    call,         \* the service call or inbound message being handled (its input)
    outcome,      \* how its handler ended
    published,    \* the mqtt.publish calls its handler made, in order
    fired         \* the hass.bus.async_fire calls its handler made, in order

vars == <<nodes, pc, idx, devices, devOrder, hassData, subs, services,
          call, outcome, published, fired>>

----------------------------------------------------------------------------
(* Bounds of the model *)

\* the longest node list of a configuration
MaxNodes == 2

----------------------------------------------------------------------------
(* Constants of the module (lines 31-87) *)

DEFAULT_TOPIC_PREFIX == "hasp"
PAYLOAD_ON == "ON"
PAYLOAD_OFF == "OFF"
DEFAULT_FONT_PLACEHOLDER == -1
SERVICE_UPDATE_COLORS == "update_colors"
SERVICE_UPDATE_MESSAGE == "update_message"

\* Python's None / an absent key, and a present value
None == << >>
Some(v) == <<v>>

----------------------------------------------------------------------------
(* Python string helpers *)

\* s.startswith(p)
StartsWith(s, p) ==
    /\ Len(p) <= Len(s)
    /\ SubSeq(s, 1, Len(p)) = p

\* s[n:]
DropFirst(s, n) == IF n >= Len(s) THEN "" ELSE SubSeq(s, n + 1, Len(s))

\* s[:-1]
DropLast(s) == IF Len(s) <= 1 THEN "" ELSE SubSeq(s, 1, Len(s) - 1)

----------------------------------------------------------------------------
(* Topic templates (lines 60-61) *)

\* the command topic as it would be with format(prefix=prefix, node=prefix)
CommandTopicOfPrefix(prefix, node) == prefix \o "/" \o prefix \o "/command/"

\* COMMAND_TOPIC_TEMPLATE.format(prefix=prefix, node=node)
CommandTopic(prefix, node) == prefix \o "/" \o node \o "/command/"

\* STATE_TOPIC_TEMPLATE.format(prefix=prefix, node=node)
StateTopic(prefix, node) == prefix \o "/" \o node \o "/state/#"

----------------------------------------------------------------------------
(* class HASwitchPlate *)

\* HASwitchPlate.__init__
HASwitchPlate(name, command_topic, state_topic, is_group) ==
    [name |-> name, command_topic |-> command_topic,
     state_topic |-> state_topic, is_group |-> is_group]

\* HASwitchPlate._get_base_command_topic
BaseCommandTopic(self, button_id) == self.command_topic \o button_id

\* _get_font_size as it would be with < in place of <=
GetFontSizeStrict(message) ==
    LET text_length == Len(message)
    IN  IF text_length < 6 THEN 3
        ELSE IF text_length < 10 THEN 2
        ELSE IF text_length < 15 THEN 1
        ELSE 0

\* _get_font_size as it would be with the font codes counted from 1
GetFontSizeOneBased(message) ==
    LET text_length == Len(message)
    IN  IF text_length <= 6 THEN 4
        ELSE IF text_length <= 10 THEN 3
        ELSE IF text_length <= 15 THEN 2
        ELSE 1

\* HASwitchPlate._get_font_size
GetFontSize(message) ==
    LET text_length == Len(message)
    IN  IF text_length <= 6 THEN 3
        ELSE IF text_length <= 10 THEN 2
        ELSE IF text_length <= 15 THEN 1
        ELSE 0

\* one mqtt.publish(hass, topic, payload) call
Publish(topic, payload) == [topic |-> topic, payload |-> payload]

\* Python truthiness of an optional str: neither None nor ''
Truthy(opt) == opt # None /\ opt[1] # ""

\* a bool used as an int: True == 1, False == 0
BoolAsInt(b) == IF b THEN 1 ELSE 0

\* update_colors as it would be with the second test copied from the first
UpdateColorsBothOnBackground(self, button_id, background, foreground) ==
    LET base_topic == self.command_topic \o button_id
    IN  (IF Truthy(background)
            THEN <<Publish(base_topic \o ".bco", background[1])>>
            ELSE << >>)
        \o
        (IF Truthy(background)
            THEN <<Publish(base_topic \o ".pco",
                           IF foreground = None THEN "None" ELSE foreground[1])>>
            ELSE << >>)

\* HASwitchPlate.update_colors: the publish calls it makes, in order
UpdateColors(self, button_id, background, foreground) ==
    LET base_topic == BaseCommandTopic(self, button_id)
    IN  (IF Truthy(background)
            THEN <<Publish(base_topic \o ".bco", background[1])>>
            ELSE << >>)
        \o
        (IF Truthy(foreground)
            THEN <<Publish(base_topic \o ".pco", foreground[1])>>
            ELSE << >>)

\* the font size as it would be were the explicit font_size never read
ActualFontSizeComputedWins(message, font_size, update_font) ==
    IF update_font
        THEN GetFontSize(message)
    ELSE DEFAULT_FONT_PLACEHOLDER

\* HASwitchPlate.update_text, lines 164-168: the font size it settles on.
\* The elif compares update_font, a bool, with the placeholder -1.
ActualFontSize(message, font_size, update_font) ==
    IF update_font /\ font_size = DEFAULT_FONT_PLACEHOLDER
        THEN GetFontSize(message)
    ELSE IF BoolAsInt(update_font) # DEFAULT_FONT_PLACEHOLDER
        THEN font_size
    ELSE DEFAULT_FONT_PLACEHOLDER

\* the payload as it would be with '{}'.format(message)
QuotedBare(message) == message

\* '\"{}\"'.format(message)
Quoted(message) == "\"" \o message \o "\""

\* update_text as it would be were an empty message skipped
UpdateTextSkipEmpty(self, button_id, message, font_size, update_font) ==
    LET base_topic == self.command_topic \o button_id
        actual_font_size == ActualFontSize(message, font_size, update_font)
    IN  IF message = "" THEN << >>
        ELSE <<Publish(base_topic \o ".txt", Quoted(message))>>
             \o
             (IF actual_font_size # DEFAULT_FONT_PLACEHOLDER
                 THEN <<Publish(base_topic \o ".font", actual_font_size)>>
                 ELSE << >>)

\* HASwitchPlate.update_text: the publish calls it makes, in order
UpdateText(self, button_id, message, font_size, update_font) ==
    LET base_topic == BaseCommandTopic(self, button_id)
        actual_font_size == ActualFontSize(message, font_size, update_font)
    IN  <<Publish(base_topic \o ".txt", Quoted(message))>>
        \o
        (IF actual_font_size # DEFAULT_FONT_PLACEHOLDER
            THEN <<Publish(base_topic \o ".font", actual_font_size)>>
            ELSE << >>)

\* one hass.bus.async_fire(EVENT_HASP_BUTTON, {...}) call
ButtonEvent(node_name, button_id, button_action) ==
    [node_name |-> node_name, button_id |-> button_id,
     button_action |-> button_action]

\* state_message_received as it would be without the test of the payload
StateMessageReceivedAnyPayload(self, topic, payload) ==
    IF self.state_topic = None
        THEN [outcome |-> "raised", fired |-> << >>]
    ELSE
        LET state_topic_prefix == DropLast(self.state_topic[1])
        IN  IF ~StartsWith(topic, state_topic_prefix)
                THEN [outcome |-> "logged_warning", fired |-> << >>]
            ELSE [outcome |-> "returned",
                  fired |-> <<ButtonEvent(self.name,
                                          DropFirst(topic, Len(state_topic_prefix)),
                                          payload)>>]

\* state_message_received as it would be with the state root sliced off
\* by the length of the pattern, wildcard included
StateMessageReceivedLongSlice(self, topic, payload) ==
    IF self.state_topic = None
        THEN [outcome |-> "raised", fired |-> << >>]
    ELSE
        LET state_topic_prefix == DropLast(self.state_topic[1])
        IN  IF ~StartsWith(topic, state_topic_prefix)
                THEN [outcome |-> "logged_warning", fired |-> << >>]
            ELSE IF ~(payload = PAYLOAD_ON \/ payload = PAYLOAD_OFF)
                THEN [outcome |-> "logged_error", fired |-> << >>]
            ELSE [outcome |-> "returned",
                  fired |-> <<ButtonEvent(self.name,
                                          DropFirst(topic, Len(self.state_topic[1])),
                                          payload)>>]

\* HASwitchPlate.state_message_received: how it ends and the events it fires.
\* Slicing the state topic of a group (None) raises TypeError.
StateMessageReceived(self, topic, payload) ==
    IF self.state_topic = None
        THEN [outcome |-> "raised", fired |-> << >>]
    ELSE
        LET state_topic_prefix == DropLast(self.state_topic[1])
        IN  IF ~StartsWith(topic, state_topic_prefix)
                THEN [outcome |-> "logged_warning", fired |-> << >>]
            ELSE IF ~(payload = PAYLOAD_ON \/ payload = PAYLOAD_OFF)
                THEN [outcome |-> "logged_error", fired |-> << >>]
            ELSE [outcome |-> "returned",
                  fired |-> <<ButtonEvent(self.name,
                                          DropFirst(topic, Len(state_topic_prefix)),
                                          payload)>>]

----------------------------------------------------------------------------
(* Dicts *)

\* the empty dict
EmptyDict == [n \in {} |-> None]

\* d[k] = v on a copy of d
DictSet(d, k, v) == [n \in DOMAIN d \cup {k} |-> IF n = k THEN v ELSE d[n]]

\* the order as it would be were the devices kept in a list appended to
\* for every entry, not a dict
OrderSetAlways(order, d, k) == Append(order, k)

\* the key order of a dict after d[k] = v
OrderSet(order, d, k) == IF k \in DOMAIN d THEN order ELSE Append(order, k)

----------------------------------------------------------------------------
(* Service schemas (lines 89-107).  A call's data carries the required     *)
(* keys node_name and button_id (and message) as str; the optional keys    *)
(* are optional values.                                                    *)

\* the schema as it would be without cv.has_at_least_one_key
ColorsSchemaAcceptsAny(data) == TRUE

\* cv.has_at_least_one_key(ATTR_BACKGROUND_COLOR, ATTR_FOREGROUND_COLOR):
\* whether SERVICE_UPDATE_COLORS_SCHEMA accepts the data
ColorsSchemaAccepts(data) == data.background # None \/ data.foreground # None

\* SERVICE_UPDATE_MESSAGE_SCHEMA: the data with the defaults filled in
MessageSchema(data) ==
    [node_name |-> data.node_name,
     button_id |-> data.button_id,
     message |-> data.message,
     font_size |-> IF data.font_size = None
                      THEN DEFAULT_FONT_PLACEHOLDER ELSE data.font_size[1],
     update_font |-> IF data.update_font = None
                        THEN TRUE ELSE data.update_font[1]]

----------------------------------------------------------------------------
(* _register_services: the two handlers (lines 195-220) over the registry  *)
(* hass.data[DATA_HA_SWITCHPLATE]                                          *)

\* handle_update_colors
HandleUpdateColors(registry, data) ==
    IF data.node_name \notin DOMAIN registry
        THEN [outcome |-> "logged_error", published |-> << >>]
    ELSE [outcome |-> "returned",
          published |-> UpdateColors(registry[data.node_name], data.button_id,
                                     data.background, data.foreground)]

\* handle_update_message as it would be without the test of node_name:
\* the lookup of an unknown name raises KeyError
HandleUpdateMessageNoCheck(registry, data) ==
    IF data.node_name \notin DOMAIN registry
        THEN [outcome |-> "raised", published |-> << >>]
    ELSE [outcome |-> "returned",
          published |-> UpdateText(registry[data.node_name], data.button_id,
                                   data.message, data.font_size,
                                   data.update_font)]

\* handle_update_message, on data the schema has filled in
HandleUpdateMessage(registry, data) ==
    IF data.node_name \notin DOMAIN registry
        THEN [outcome |-> "logged_error", published |-> << >>]
    ELSE [outcome |-> "returned",
          published |-> UpdateText(registry[data.node_name], data.button_id,
                                   data.message, data.font_size,
                                   data.update_font)]

----------------------------------------------------------------------------
(* Inputs *)

\* node names and group names a configuration entry may carry
ConfNames == {"kitchen", "den"}
ConfGroups == {None, Some("upstairs"), Some("kitchen")}

\* the node lists of at most MaxNodes entries
RECURSIVE NodeLists(_)
NodeLists(n) ==
    IF n = 0 THEN {<< >>}
    ELSE LET shorter == NodeLists(n - 1)
         IN  shorter \cup
             {Append(l, [name |-> nm, group_name |-> g]) :
                 l \in {x \in shorter : Len(x) = n - 1},
                 nm \in ConfNames, g \in ConfGroups}

\* what a service call may carry
CallNames == {"kitchen", "upstairs", "garage"}
ButtonIds == {"p1b3", "p2b1"}
Messages == {"", "Hi", "Kitchen", "Living room", "Temperature: 21C"}
FontSizes == {None, Some(-1), Some(0), Some(1), Some(7)}
UpdateFonts == {None, Some(TRUE), Some(FALSE)}
Backgrounds == {None, Some(""), Some("#FF0000")}
Foregrounds == {None, Some(""), Some("#00FF00")}

\* what the transport may deliver to a subscription
InTopics == {"hasp/kitchen/state/p1b3", "hasp/kitchen/state",
             "hasp/kitchen/state/", "hasp/den/state/p2b1"}
InPayloads == {"ON", "OFF", "TOGGLE", "on"}

----------------------------------------------------------------------------
(* async_setup *)

NoCall == [op |-> "none"]

\* The event loop runs one callback at a time: no handler is in progress
Idle == call = NoCall

\* entering async_setup (lines 237-245) with a configuration
Init ==
    /\ nodes \in NodeLists(MaxNodes)
    /\ pc = IF nodes = << >> THEN "populate" ELSE "build"
    /\ idx = 1
    /\ devices = EmptyDict
    /\ devOrder = << >>
    /\ hassData = EmptyDict
    /\ subs = << >>
    /\ services = {}
    /\ call = NoCall
    /\ outcome = "none"
    /\ published = << >>
    /\ fired = << >>

\* lines 251-254 as they would be without the test of node_name: the
\* individual record replaces whatever the name holds
WithNodeOverwrites(devs, node_name) ==
    DictSet(devs, node_name,
            HASwitchPlate(node_name,
                          CommandTopic(DEFAULT_TOPIC_PREFIX, node_name),
                          Some(StateTopic(DEFAULT_TOPIC_PREFIX, node_name)),
                          FALSE))

\* lines 251-254: the individual record of a node entry
WithNode(devs, node_name) ==
    IF node_name \notin DOMAIN devs
        THEN DictSet(devs, node_name,
                     HASwitchPlate(node_name,
                                   CommandTopic(DEFAULT_TOPIC_PREFIX, node_name),
                                   Some(StateTopic(DEFAULT_TOPIC_PREFIX, node_name)),
                                   FALSE))
    ELSE devs

\* lines 256-258 as they would be were the group given a state topic too
WithGroupSubscribable(devs, group_name) ==
    IF Truthy(group_name) /\ group_name[1] \notin DOMAIN devs
        THEN DictSet(devs, group_name[1],
                     HASwitchPlate(group_name[1],
                                   CommandTopic(DEFAULT_TOPIC_PREFIX, group_name[1]),
                                   Some(StateTopic(DEFAULT_TOPIC_PREFIX, group_name[1])),
                                   TRUE))
    ELSE devs

\* lines 256-258 as they would be without the test `group_name not in
\* devices`: the group record replaces whatever the name holds
WithGroupOverwrites(devs, group_name) ==
    IF Truthy(group_name)
        THEN DictSet(devs, group_name[1],
                     HASwitchPlate(group_name[1],
                                   CommandTopic(DEFAULT_TOPIC_PREFIX, group_name[1]),
                                   None, TRUE))
    ELSE devs

\* lines 256-258: the group record of a node entry
WithGroup(devs, group_name) ==
    IF Truthy(group_name) /\ group_name[1] \notin DOMAIN devs
        THEN DictSet(devs, group_name[1],
                     HASwitchPlate(group_name[1],
                                   CommandTopic(DEFAULT_TOPIC_PREFIX, group_name[1]),
                                   None, TRUE))
    ELSE devs

\* the key order of WithGroup(devs, group_name)
GroupOrder(order, devs, group_name) ==
    IF Truthy(group_name) THEN OrderSet(order, devs, group_name[1]) ELSE order

\* one iteration of the loop over the nodes (lines 247-258)
BuildNode ==
    /\ Idle
    /\ pc = "build"
    /\ idx <= Len(nodes)
    /\ LET node == nodes[idx]
           d1 == WithNode(devices, node.name)
           o1 == OrderSet(devOrder, devices, node.name)
       IN  /\ devices' = WithGroup(d1, node.group_name)
           /\ devOrder' = GroupOrder(o1, d1, node.group_name)
    /\ IF idx = Len(nodes)
          THEN pc' = "subscribe" /\ idx' = 1
          ELSE pc' = "build" /\ idx' = idx + 1
    /\ UNCHANGED <<nodes, hassData, subs, services, call, outcome,
                   published, fired>>

\* the step of _initialize_nodes' loop after device idx (lines 229-231)
NextDevice ==
    IF idx = Len(devOrder)
        THEN pc' = "populate" /\ idx' = 1
        ELSE pc' = "subscribe" /\ idx' = idx + 1

\* device.subscribe() of a group: returns at once (lines 128-129)
SubscribeGroup ==
    /\ Idle
    /\ pc = "subscribe"
    /\ devices[devOrder[idx]].is_group
    /\ NextDevice
    /\ UNCHANGED <<nodes, devices, devOrder, hassData, subs, services,
                   call, outcome, published, fired>>

\* the subscription mqtt.async_subscribe(hass, self._state_topic,
\* self.state_message_received) installs
Subscription(self) == [topic |-> self.state_topic, device |-> self]

\* device.subscribe() of an individual node, accepted (lines 130-131)
SubscribeNode ==
    /\ Idle
    /\ pc = "subscribe"
    /\ ~devices[devOrder[idx]].is_group
    /\ subs' = Append(subs, Subscription(devices[devOrder[idx]]))
    /\ NextDevice
    /\ UNCHANGED <<nodes, devices, devOrder, hassData, services,
                   call, outcome, published, fired>>

\* the failed subscription as it would be were the exception caught and
\* dropped in the loop: setup goes on with the next device
SubscribeFailsSwallowed ==
    /\ Idle
    /\ pc = "subscribe"
    /\ ~devices[devOrder[idx]].is_group
    /\ NextDevice
    /\ UNCHANGED <<nodes, devices, devOrder, hassData, subs, services,
                   call, outcome, published, fired>>

\* device.subscribe() of an individual node, mqtt.async_subscribe raising:
\* the exception leaves _initialize_nodes and async_setup (lines 230, 315)
SubscribeFails ==
    /\ Idle
    /\ pc = "subscribe"
    /\ ~devices[devOrder[idx]].is_group
    /\ pc' = "failed"
    /\ UNCHANGED <<nodes, idx, devices, devOrder, hassData, subs, services,
                   call, outcome, published, fired>>

\* lines 316-318: hass.data[DATA_HA_SWITCHPLATE] after the loop
Populated(registry, devs) ==
    [n \in DOMAIN registry \cup DOMAIN devs |->
        IF n \in DOMAIN registry THEN registry[n] ELSE devs[n]]

\* the loop that fills the registry (lines 316-318)
Populate ==
    /\ Idle
    /\ pc = "populate"
    /\ hassData' = Populated(hassData, devices)
    /\ pc' = "services"
    /\ UNCHANGED <<nodes, idx, devices, devOrder, subs, services,
                   call, outcome, published, fired>>

\* the registration as it would be were _register_services awaited at the
\* top of async_setup, before the devices are built
RegisterServicesFirst ==
    /\ Idle
    /\ pc = "build"
    /\ services = {}
    /\ services' = {SERVICE_UPDATE_COLORS, SERVICE_UPDATE_MESSAGE}
    /\ UNCHANGED <<nodes, pc, idx, devices, devOrder, hassData, subs,
                   call, outcome, published, fired>>

\* _register_services (lines 222-224, 323), and async_setup returning True
RegisterServices ==
    /\ Idle
    /\ pc = "services"
    /\ services' = {SERVICE_UPDATE_COLORS, SERVICE_UPDATE_MESSAGE}
    /\ pc' = "done"
    /\ UNCHANGED <<nodes, idx, devices, devOrder, hassData, subs,
                   call, outcome, published, fired>>

----------------------------------------------------------------------------
(* After registration: service calls and inbound messages *)

\* a call of ha_switchplate.update_colors
CallUpdateColors ==
    /\ Idle
    /\ SERVICE_UPDATE_COLORS \in services
    /\ \E n \in CallNames, b \in ButtonIds,
          bg \in Backgrounds, fg \in Foregrounds :
          LET data == [node_name |-> n, button_id |-> b,
                       background |-> bg, foreground |-> fg]
              r == HandleUpdateColors(hassData, data)
          IN  /\ call' = [op |-> SERVICE_UPDATE_COLORS, data |-> data]
              /\ IF ColorsSchemaAccepts(data)
                    THEN outcome' = r.outcome /\ published' = r.published
                    ELSE outcome' = "invalid" /\ published' = << >>
    /\ fired' = << >>
    /\ UNCHANGED <<nodes, pc, idx, devices, devOrder, hassData, subs, services>>

\* the call as it would be were an unknown node_name registered on the
\* fly, as a command-only record, instead of being refused
CallUpdateMessageAutoRegister ==
    /\ Idle
    /\ SERVICE_UPDATE_MESSAGE \in services
    /\ \E n \in CallNames, b \in ButtonIds, m \in Messages,
          fs \in FontSizes, uf \in UpdateFonts :
          LET data == [node_name |-> n, button_id |-> b, message |-> m,
                       font_size |-> fs, update_font |-> uf]
              registry == WithGroup(hassData, Some(n))
              r == HandleUpdateMessage(registry, MessageSchema(data))
          IN  /\ call' = [op |-> SERVICE_UPDATE_MESSAGE, data |-> data]
              /\ outcome' = r.outcome
              /\ published' = r.published
              /\ hassData' = registry
    /\ fired' = << >>
    /\ UNCHANGED <<nodes, pc, idx, devices, devOrder, subs, services>>

\* a call of ha_switchplate.update_message
CallUpdateMessage ==
    /\ Idle
    /\ SERVICE_UPDATE_MESSAGE \in services
    /\ \E n \in CallNames, b \in ButtonIds, m \in Messages,
          fs \in FontSizes, uf \in UpdateFonts :
          LET data == [node_name |-> n, button_id |-> b, message |-> m,
                       font_size |-> fs, update_font |-> uf]
              r == HandleUpdateMessage(hassData, MessageSchema(data))
          IN  /\ call' = [op |-> SERVICE_UPDATE_MESSAGE, data |-> data]
              /\ outcome' = r.outcome
              /\ published' = r.published
    /\ fired' = << >>
    /\ UNCHANGED <<nodes, pc, idx, devices, devOrder, hassData, subs, services>>

\* the transport delivering a message to one of the subscriptions
Deliver ==
    /\ Idle
    /\ \E k \in 1..Len(subs), topic \in InTopics, payload \in InPayloads :
          LET r == StateMessageReceived(subs[k].device, topic, payload)
          IN  /\ call' = [op |-> "state_message", sub |-> k,
                          topic |-> topic, payload |-> payload]
              /\ outcome' = r.outcome
              /\ fired' = r.fired
    /\ published' = << >>
    /\ UNCHANGED <<nodes, pc, idx, devices, devOrder, hassData, subs, services>>

\* the handler in progress ends: control is back with the event loop
Return ==
    /\ ~Idle
    /\ call' = NoCall
    /\ outcome' = "none"
    /\ published' = << >>
    /\ fired' = << >>
    /\ UNCHANGED <<nodes, pc, idx, devices, devOrder, hassData, subs, services>>

Next ==
    \/ BuildNode
    \/ SubscribeGroup
    \/ SubscribeNode
    \/ SubscribeFails
    \/ Populate
    \/ RegisterServices
    \/ CallUpdateColors
    \/ CallUpdateMessage
    \/ Deliver
    \/ Return

Spec == Init /\ [][Next]_vars

----------------------------------------------------------------------------
(* Vocabulary of the properties *)

\* the string s ends with p
EndsWith(s, p) ==
    /\ Len(p) <= Len(s)
    /\ SubSeq(s, Len(s) - Len(p) + 1, Len(s)) = p

MessageCall == call.op = SERVICE_UPDATE_MESSAGE
ColorsCall == call.op = SERVICE_UPDATE_COLORS
StateMessage == call.op = "state_message"

\* the update call in progress names a record of the registry
Registered == call.data.node_name \in DOMAIN hassData

\* the topic {commandRoot}{buttonId}{suffix} of the update call in progress
CommandTopicOf(suffix) ==
    hassData[call.data.node_name].command_topic \o call.data.button_id \o suffix

\* the positions of the publish calls whose topic ends with suffix
PubsOn(suffix) == {i \in 1..Len(published) : EndsWith(published[i].topic, suffix)}

\* the update_font the handler works with: the schema's default is True
WantsFont == call.data.update_font # Some(FALSE)

\* C1: an updateMessage call on a registered device with updateFont = false
\* publishes no '.font' message, whatever fontSize it carries: only '.txt'.
C1_NoFontWhenUpdateFontFalse ==
    (MessageCall /\ Registered /\ call.data.update_font = Some(FALSE))
        => /\ PubsOn(".font") = {}
           /\ Len(published) = 1
           /\ published[1].topic = CommandTopicOf(".txt")

\* C2 as stated: an updateMessage call with the empty message publishes
\* nothing, even on a registered device.
C2_EmptyMessagePublishesNothing ==
    (MessageCall /\ Registered /\ call.data.message = "")
        => published = << >>

\* C2 as amended: an updateMessage call with the empty message is accepted
\* like any other; on a registered device the handler returns normally
\* having published, first, exactly one '.txt' message whose payload is two
\* double quotes; it publishes nothing only when the name is unknown.
C2_EmptyMessageAccepted ==
    (MessageCall /\ call.data.message = "")
        => IF Registered
              THEN /\ outcome = "returned"
                   /\ PubsOn(".txt") = {1}
                   /\ published[1].topic = CommandTopicOf(".txt")
                   /\ published[1].payload = "\"\""
              ELSE published = << >>

C2_Witness ==
    /\ MessageCall
    /\ call.data.message = ""
    /\ call.data.node_name = "kitchen"
    /\ Registered
    /\ Len(published) = 2
    /\ published[1].topic = "hasp/kitchen/command/p1b3.txt"

\* C3: an updateColors or updateMessage call whose device name is not a key
\* of the registry publishes nothing, fires nothing, leaves the registry as
\* it was, and ends refused (logged, or refused by the schema), not raising.
C3_UnknownDevicePublishesNothing ==
    [][(Idle /\ (call'.op = SERVICE_UPDATE_COLORS
                    \/ call'.op = SERVICE_UPDATE_MESSAGE)
             /\ call'.data.node_name \notin DOMAIN hassData)
          => /\ published' = << >>
             /\ fired' = << >>
             /\ hassData' = hassData
             /\ outcome' \in {"logged_error", "invalid"}
             /\ (outcome' = "invalid"
                   <=> (call'.op = SERVICE_UPDATE_COLORS
                          /\ call'.data.background = None
                          /\ call'.data.foreground = None))]_vars

C3_Witness ==
    /\ MessageCall
    /\ call.data.node_name = "garage"
    /\ ~Registered
    /\ DOMAIN hassData # {}
    /\ outcome = "logged_error"
    /\ published = << >>

\* C4 as stated: every payload published to a '.font' topic is an integer
\* in 0..3.
C4_FontPayloadInRange ==
    \A i \in PubsOn(".font") : published[i].payload \in 0..3

\* C4 as amended: every payload published to a '.font' topic is either the
\* Font-Size Policy value of the call's message, an integer in 0..3 (when
\* the call carries no fontSize, or the placeholder -1), or else the
\* explicit fontSize of the call, any integer but -1: the service does not
\* restrict it to 0..3.
C4_FontPayloadComputedOrExplicit ==
    MessageCall =>
        \A i \in PubsOn(".font") :
            IF call.data.font_size \in {None, Some(-1)}
               THEN /\ published[i].payload \in 0..3
                    /\ published[i].payload = GetFontSize(call.data.message)
               ELSE /\ published[i].payload = call.data.font_size[1]
                    /\ published[i].payload # -1

C4_Witness ==
    /\ MessageCall
    /\ call.data.font_size = Some(7)
    /\ PubsOn(".font") = {2}
    /\ published[2].payload = 7

\* C5 as stated: an updateMessage call on a registered device with
\* updateFont = true publishes exactly one '.font' message, on
\* {commandRoot}{buttonId}.font: the Font-Size Policy value of the message
\* when the call carries no fontSize, the explicit fontSize when it does.
C5_ExplicitFontWins ==
    (MessageCall /\ Registered /\ WantsFont)
        => /\ Cardinality(PubsOn(".font")) = 1
           /\ \A i \in PubsOn(".font") :
                 /\ published[i].topic = CommandTopicOf(".font")
                 /\ published[i].payload =
                       IF call.data.font_size = None
                          THEN GetFontSize(call.data.message)
                          ELSE call.data.font_size[1]

\* C5 as amended: the same, except that an explicit fontSize of -1, the
\* placeholder the schema fills in for an absent fontSize, counts as absent:
\* the payload is then the Font-Size Policy value of the message.
C5_ExplicitFontWinsButPlaceholder ==
    (MessageCall /\ Registered /\ WantsFont)
        => /\ Cardinality(PubsOn(".font")) = 1
           /\ \A i \in PubsOn(".font") :
                 /\ published[i].topic = CommandTopicOf(".font")
                 /\ published[i].payload =
                       IF call.data.font_size \in {None, Some(-1)}
                          THEN CASE Len(call.data.message) <= 6 -> 3
                                 [] Len(call.data.message) \in 7..10 -> 2
                                 [] Len(call.data.message) \in 11..15 -> 1
                                 [] OTHER -> 0
                          ELSE call.data.font_size[1]

C5_Witness ==
    /\ MessageCall
    /\ call.data.node_name = "kitchen"
    /\ call.data.button_id = "p1b3"
    /\ call.data.message = "Hi"
    /\ call.data.font_size = Some(1)
    /\ call.data.update_font = Some(TRUE)
    /\ Len(published) = 2
    /\ published[2].topic = "hasp/kitchen/command/p1b3.font"
    /\ published[2].payload = 1

\* C6: an updateMessage call on a registered device, individual or group,
\* with a non-empty message publishes exactly one message to
\* {commandRoot}{buttonId}.txt, its payload the message in double quotes,
\* whatever fontSize and updateFont are.
C6_TextAlwaysPublishedQuoted ==
    (MessageCall /\ Registered /\ call.data.message # "")
        => /\ Cardinality(PubsOn(".txt")) = 1
           /\ \A i \in PubsOn(".txt") :
                 /\ published[i].topic = CommandTopicOf(".txt")
                 /\ published[i].payload = "\"" \o call.data.message \o "\""
                 /\ Len(published[i].payload) = Len(call.data.message) + 2

C6_Witness ==
    /\ MessageCall
    /\ call.data.node_name = "upstairs"
    /\ Registered
    /\ hassData["upstairs"].is_group
    /\ call.data.update_font = Some(FALSE)
    /\ call.data.font_size = None
    /\ Len(published) = 1
    /\ published[1].topic = "hasp/upstairs/command/p2b1.txt"
    /\ published[1].payload = "\"Living room\""

\* C7: an updateColors call on a registered device publishes payload
\* background to {commandRoot}{buttonId}.bco iff background is present and
\* non-empty, payload foreground to {commandRoot}{buttonId}.pco iff
\* foreground is present and non-empty, and nothing else.
C7_ColorsPublishedIffPresent ==
    (ColorsCall /\ Registered)
        => LET bg == call.data.background
               fg == call.data.foreground
               hasBg == bg # None /\ bg[1] # ""
               hasFg == fg # None /\ fg[1] # ""
           IN  /\ Cardinality(PubsOn(".bco")) = IF hasBg THEN 1 ELSE 0
               /\ Cardinality(PubsOn(".pco")) = IF hasFg THEN 1 ELSE 0
               /\ Len(published) = Cardinality(PubsOn(".bco") \cup PubsOn(".pco"))
               /\ \A i \in PubsOn(".bco") :
                     /\ published[i].topic = CommandTopicOf(".bco")
                     /\ published[i].payload = bg[1]
               /\ \A i \in PubsOn(".pco") :
                     /\ published[i].topic = CommandTopicOf(".pco")
                     /\ published[i].payload = fg[1]

C7_Witness ==
    /\ ColorsCall
    /\ call.data.node_name = "kitchen"
    /\ call.data.background = Some("#FF0000")
    /\ call.data.foreground = None
    /\ Len(published) = 1
    /\ published[1].topic = "hasp/kitchen/command/p1b3.bco"
    /\ published[1].payload = "#FF0000"

\* neither color of the updateColors call in progress is non-empty
NoColor ==
    /\ call.data.background \in {None, Some("")}
    /\ call.data.foreground \in {None, Some("")}

\* C8 as stated: an updateColors call in which neither background nor
\* foreground is non-empty is rejected with an error and publishes nothing.
C8_NoColorRejected ==
    (ColorsCall /\ NoColor)
        => /\ outcome \in {"invalid", "logged_error"}
           /\ published = << >>

\* C8 as amended: such a call publishes nothing.  It is rejected with an
\* error when both colors are absent (the schema refuses it) or when the
\* device name is unknown; when a color is present but empty and the device
\* is registered, the call is accepted and returns without an error.
C8_NoColorPublishesNothing ==
    (ColorsCall /\ NoColor)
        => /\ published = << >>
           /\ outcome =
                 IF call.data.background = None /\ call.data.foreground = None
                    THEN "invalid"
                 ELSE IF Registered THEN "returned"
                 ELSE "logged_error"

C8_Witness ==
    /\ ColorsCall
    /\ call.data.node_name = "kitchen"
    /\ Registered
    /\ call.data.background = None
    /\ call.data.foreground = None
    /\ outcome = "invalid"
    /\ published = << >>

\* the state root of the subscription a message was delivered to: its
\* pattern without the trailing wildcard character
RootOf(c) ==
    LET pattern == subs[c.sub].topic[1]
    IN  SubSeq(pattern, 1, Len(pattern) - 1)

\* C9: the handler of a state message fires no event when the topic does
\* not start with the device's state root, even with payload ON or OFF, and
\* none when the payload is not exactly ON or OFF, even on a valid topic;
\* it then returns normally (having logged), and the subscription stays in
\* place, also once the handler has ended.
C9_MalformedMessageDiscarded ==
    [][/\ (Idle /\ call'.op = "state_message"
                /\ (~StartsWith(call'.topic, RootOf(call'))
                       \/ call'.payload \notin {"ON", "OFF"}))
            => /\ fired' = << >>
               /\ outcome' = IF ~StartsWith(call'.topic, RootOf(call'))
                                THEN "logged_warning" ELSE "logged_error"
               /\ subs' = subs
       /\ (StateMessage /\ fired = << >>)
            => /\ subs' = subs
               /\ Idle']_vars

C9_Witness ==
    /\ StateMessage
    /\ subs[call.sub].device.name = "kitchen"
    /\ call.topic = "hasp/kitchen/state"
    /\ call.payload = "ON"
    /\ outcome = "logged_warning"
    /\ fired = << >>

\* C10: after a successful setup, a message delivered to an individual
\* device's subscription whose topic starts with the device's state root
\* and whose payload is ON or OFF fires exactly one event, with node_name
\* the device's name, button_id the topic without the state root and
\* button_action the payload, and no other subscription is bound to that
\* device; no event carries an action outside {ON, OFF} or the name of a
\* group record.
C10_ValidMessageFiresOneEvent ==
    StateMessage =>
        LET dev == subs[call.sub].device
            root == RootOf(call)
        IN  /\ (pc = "done" /\ StartsWith(call.topic, root)
                            /\ call.payload \in {"ON", "OFF"})
                  => /\ Len(fired) = 1
                     /\ fired[1].node_name = dev.name
                     /\ root \o fired[1].button_id = call.topic
                     /\ fired[1].button_action = call.payload
                     /\ {k \in 1..Len(subs) : subs[k].device.name = dev.name}
                           = {call.sub}
            /\ \A i \in 1..Len(fired) :
                  /\ fired[i].button_action \in {"ON", "OFF"}
                  /\ fired[i].node_name \in DOMAIN devices
                  /\ ~devices[fired[i].node_name].is_group
                  /\ fired[i].node_name \in DOMAIN hassData
                        => ~hassData[fired[i].node_name].is_group

C10_Witness ==
    /\ pc = "done"
    /\ StateMessage
    /\ call.topic = "hasp/kitchen/state/p1b3"
    /\ call.payload = "ON"
    /\ fired = <<[node_name |-> "kitchen", button_id |-> "p1b3",
                  button_action |-> "ON"]>>


----------------------------------------------------------------------------
(* Vocabulary of the properties of the registry *)

\* the entries of the configuration that use n as node name, as group name
AsNode(n) == {i \in 1..Len(nodes) : nodes[i].name = n}
AsGroup(n) == {i \in 1..Len(nodes) : nodes[i].group_name = Some(n)}

\* the names the configuration uses
NodeNames == {nodes[i].name : i \in 1..Len(nodes)}
GroupNames == {nodes[i].group_name[1] :
                  i \in {j \in 1..Len(nodes) : nodes[j].group_name # None}}

\* the least element of a non-empty set of numbers
Least(S) == CHOOSE i \in S : \A j \in S : i <= j

\* the positions of the subscriptions bound to the record named n
SubsOf(n) == {k \in 1..Len(subs) : subs[k].device.name = n}

\* the registry holds for n an individual record, subscribed once to its
\* state pattern
IndividualAt(n) ==
    /\ n \in DOMAIN hassData
    /\ hassData[n].name = n
    /\ ~hassData[n].is_group
    /\ hassData[n].state_topic = Some("hasp/" \o n \o "/state/#")
    /\ Cardinality(SubsOf(n)) = 1
    /\ \A k \in SubsOf(n) : /\ subs[k].topic = hassData[n].state_topic
                            /\ subs[k].device = hassData[n]

\* the registry holds for n a group record, not subscribed
GroupAt(n) ==
    /\ n \in DOMAIN hassData
    /\ hassData[n].name = n
    /\ hassData[n].is_group
    /\ hassData[n].state_topic = None
    /\ SubsOf(n) = {}

----------------------------------------------------------------------------
(* The Font-Size Policy on its own: _get_font_size applied to texts of     *)
(* every length up to MaxTextLen, two at a time                            *)

\* the longest text
MaxTextLen == 20

\* a text of n characters
RECURSIVE Text(_)
Text(n) == IF n = 0 THEN "" ELSE Text(n - 1) \o "x"

FontSizeInit ==
    /\ nodes = << >>
    /\ pc = "font_size"
    /\ idx = 1
    /\ devices = EmptyDict
    /\ devOrder = << >>
    /\ hassData = EmptyDict
    /\ subs = << >>
    /\ services = {}
    /\ call = NoCall
    /\ outcome = "none"
    /\ published = << >>
    /\ fired = << >>

\* HASwitchPlate._get_font_size(message) and ..._get_font_size(other)
ApplyFontSize ==
    /\ \E l1 \in 0..MaxTextLen, l2 \in 0..MaxTextLen :
          /\ call' = [op |-> "_get_font_size",
                      message |-> Text(l1), other |-> Text(l2)]
          /\ outcome' = <<GetFontSize(Text(l1)), GetFontSize(Text(l2))>>
    /\ UNCHANGED <<nodes, pc, idx, devices, devOrder, hassData, subs,
                   services, published, fired>>

FontSizeSpec == FontSizeInit /\ [][ApplyFontSize]_vars

\* C14: the Font-Size Policy maps a text of length L to 3 when 0 <= L <= 6,
\* to 2 when 7 <= L <= 10, to 1 when 11 <= L <= 15 and to 0 when L > 15; it
\* has a value in 0..3 for every length, and a longer text never gets a
\* larger value.
C14_FontSizePolicy ==
    call.op = "_get_font_size" =>
        LET L == Len(call.message)
        IN  /\ outcome[1] \in 0..3
            /\ (0 <= L /\ L <= 6) => outcome[1] = 3
            /\ (7 <= L /\ L <= 10) => outcome[1] = 2
            /\ (11 <= L /\ L <= 15) => outcome[1] = 1
            /\ L > 15 => outcome[1] = 0
            /\ L <= Len(call.other) => outcome[1] >= outcome[2]

C14_Witness ==
    /\ call.op = "_get_font_size"
    /\ Len(call.message) = 6
    /\ Len(call.other) = 16
    /\ outcome = <<3, 0>>

\* C11 as stated: whatever the order of the entries, a name used both as a
\* node name and as a group name ends up, after setup, as the individual
\* record, with its state pattern subscribed.
C11_NodeAlwaysWins ==
    pc = "done" =>
        \A n \in NodeNames \cap GroupNames : IndividualAt(n)

\* C11 as amended: a name used both as a node name and as a group name ends
\* up, after setup, as exactly one record, the one created first in the
\* order of the entries: the individual record, subscribed, if the name
\* occurs as a node name in the same entry as, or an earlier entry than, its
\* first use as a group name; the group record, with no state pattern and
\* no subscription, if an earlier entry uses it as a group name.
C11_FirstRegistrationWins ==
    pc = "done" =>
        \A n \in NodeNames \cap GroupNames :
            IF Least(AsNode(n)) <= Least(AsGroup(n))
               THEN IndividualAt(n)
               ELSE GroupAt(n)

C11_Witness ==
    /\ pc = "done"
    /\ nodes = <<[name |-> "kitchen", group_name |-> None],
                 [name |-> "den", group_name |-> Some("kitchen")]>>
    /\ IndividualAt("kitchen")


\* the group name of entry e is, when the entry's group is reached, already
\* the name of an individual record: the entry's own node, just registered,
\* or an earlier one
GroupMeetsNode(e) ==
    /\ e.group_name # None
    /\ \/ /\ e.group_name[1] = e.name
          /\ e.name \notin DOMAIN devices
       \/ /\ e.group_name[1] \in DOMAIN devices
          /\ ~devices[e.group_name[1]].is_group

\* C12: when setup meets a group name that an individual node already
\* registered bears (the entry's own node name included), the existing
\* record is not replaced, no step of the loop replaces a record, and after
\* setup the name resolves to the individual record, subscribed.
C12_GroupDoesNotReplaceNode ==
    /\ [][(pc = "build" /\ Idle /\ Idle')
             => /\ \A n \in DOMAIN devices :
                      /\ n \in DOMAIN devices'
                      /\ devices'[n] = devices[n]
                /\ GroupMeetsNode(nodes[idx])
                      => LET g == nodes[idx].group_name[1]
                         IN  /\ g \in DOMAIN devices'
                             /\ ~devices'[g].is_group
                             /\ devices'[g].state_topic # None]_vars
    /\ [](pc = "done" =>
            \A n \in DOMAIN devices : ~devices[n].is_group => IndividualAt(n))

C12_Witness ==
    /\ pc = "done"
    /\ nodes = <<[name |-> "kitchen", group_name |-> Some("kitchen")],
                 [name |-> "den", group_name |-> Some("kitchen")]>>
    /\ IndividualAt("kitchen")
    /\ IndividualAt("den")


\* C13: when the subscription of an individual device is not accepted
\* during setup, setup fails; a failed setup has left the registry empty
\* and the two services unregistered, and it never comes to report success.
C13_SubscriptionFailureFailsSetup ==
    [][/\ (pc = "subscribe" /\ Idle /\ Idle'
              /\ ~devices[devOrder[idx]].is_group /\ subs' = subs)
            => pc' = "failed"
       /\ pc' = "failed"
            => /\ DOMAIN hassData' = {}
               /\ services' = {}
       /\ pc = "failed" => pc' = "failed"]_vars

C13_Witness ==
    /\ pc = "failed"
    /\ Len(subs) = 1
    /\ Len(devOrder) = 2
    /\ idx = 2
    /\ DOMAIN hassData = {}
    /\ services = {}


\* a Device Record has a state topic pattern iff it is not a group
PatternIffIndividual(rec) == (rec.state_topic # None) <=> ~rec.is_group

\* C15: in every state during and after setup, every Device Record, of the
\* registry and of the dict setup builds it from, has a state topic pattern
\* if and only if it is not a group.
C15_StatePatternIffNotGroup ==
    /\ \A n \in DOMAIN devices : PatternIffIndividual(devices[n])
    /\ \A n \in DOMAIN hassData : PatternIffIndividual(hassData[n])
    /\ \A k \in 1..Len(subs) : PatternIffIndividual(subs[k].device)

C15_Witness ==
    /\ pc = "done"
    /\ DOMAIN hassData = {"kitchen", "upstairs"}
    /\ hassData["upstairs"].is_group
    /\ hassData["upstairs"].state_topic = None
    /\ ~hassData["kitchen"].is_group
    /\ hassData["kitchen"].state_topic = Some("hasp/kitchen/state/#")


\* C16: after a successful setup, a subscription bound to a record exists
\* iff the record is an individual record of the registry: every individual
\* record has exactly one subscription, on its own state pattern, also when
\* its name occurs in several entries; a group record has none, also when
\* several entries share the group.
C16_SubscribedIffIndividual ==
    pc = "done" =>
        /\ \A n \in DOMAIN hassData :
              IF hassData[n].is_group THEN GroupAt(n) ELSE IndividualAt(n)
        /\ \A k \in 1..Len(subs) :
              /\ subs[k].device.name \in DOMAIN hassData
              /\ subs[k].device = hassData[subs[k].device.name]
              /\ ~subs[k].device.is_group
        /\ Len(subs) = Cardinality({n \in DOMAIN hassData : ~hassData[n].is_group})

C16_Witness ==
    /\ pc = "done"
    /\ nodes = <<[name |-> "kitchen", group_name |-> Some("upstairs")],
                 [name |-> "kitchen", group_name |-> Some("upstairs")]>>
    /\ DOMAIN hassData = {"kitchen", "upstairs"}
    /\ Len(subs) = 1
    /\ subs[1].topic = Some("hasp/kitchen/state/#")


\* C17: once setup has completed, no step (an updateColors call, an
\* updateMessage call, an inbound state message, accepted or rejected, or
\* the end of its handler) changes the key set of the registry or a field
\* of a record, in the registry or bound to a subscription; the registry
\* stays what setup built.
C17_RegistryFrozenAfterSetup ==
    /\ [][pc = "done"
             => /\ pc' = "done"
                /\ DOMAIN hassData' = DOMAIN hassData
                /\ \A n \in DOMAIN hassData :
                      /\ hassData'[n].name = hassData[n].name
                      /\ hassData'[n].command_topic = hassData[n].command_topic
                      /\ hassData'[n].state_topic = hassData[n].state_topic
                      /\ hassData'[n].is_group = hassData[n].is_group
                /\ subs' = subs]_vars
    /\ [](pc = "done" => hassData = devices)

C17_Witness ==
    /\ pc = "done"
    /\ ColorsCall
    /\ Registered
    /\ Len(published) = 2
    /\ DOMAIN hassData = {"kitchen", "den", "upstairs"}


----------------------------------------------------------------------------
(* The Topic Namer on its own: the command topic template applied, under   *)
(* one prefix, to two names, and the records setup makes of the two names  *)

\* topic prefixes and device names, with separators and template words
Prefixes == {"hasp", "hasp/a", ""}
NamerNames == {"", "a", "b", "a/", "/a", "a/command", "a/command/"}

NamerInit ==
    /\ nodes = << >>
    /\ pc = "topic_namer"
    /\ idx = 1
    /\ devices = EmptyDict
    /\ devOrder = << >>
    /\ hassData = EmptyDict
    /\ subs = << >>
    /\ services = {}
    /\ call = NoCall
    /\ outcome = "none"
    /\ published = << >>
    /\ fired = << >>

\* COMMAND_TOPIC_TEMPLATE.format for a node name and for another name
\* under the same prefix (lines 252, 257), and the two records of lines
\* 251-258 for an entry {name, group_name: other}
ApplyTopicNamer ==
    /\ \E p \in Prefixes, a \in NamerNames, b \in NamerNames :
          /\ call' = [op |-> "topic_namer", prefix |-> p,
                      name |-> a, other |-> b]
          /\ outcome' = <<CommandTopic(p, a), CommandTopic(p, b)>>
          /\ devices' = WithGroup(WithNode(EmptyDict, a), Some(b))
    /\ UNCHANGED <<nodes, pc, idx, devOrder, hassData, subs, services,
                   published, fired>>

NamerSpec == NamerInit /\ [][ApplyTopicNamer]_vars

\* C18: under one prefix, two distinct device names never get the same
\* command root (and one name gets one command root), each command root
\* being {prefix}/{name}/command/; so no two records made from distinct
\* names share a command root.
C18_CommandRootInjective ==
    call.op = "topic_namer" =>
        /\ (call.name = call.other) <=> (outcome[1] = outcome[2])
        /\ outcome[1] = call.prefix \o "/" \o call.name \o "/command/"
        /\ Len(outcome[1]) = Len(call.prefix) + Len(call.name) + 10
        /\ \A n \in DOMAIN devices, m \in DOMAIN devices :
              n # m => devices[n].command_topic # devices[m].command_topic
        /\ \A n \in DOMAIN devices :
              devices[n].command_topic = "hasp/" \o n \o "/command/"

C18_Witness ==
    /\ call.op = "topic_namer"
    /\ call.prefix = "hasp"
    /\ call.name = "a"
    /\ call.other = "a/command/"
    /\ outcome = <<"hasp/a/command/", "hasp/a/command//command/">>
    /\ DOMAIN devices = {"a", "a/command/"}


\* the device names the configuration asks for
Configured == NodeNames \cup (GroupNames \ {""})

\* C19: the two update services are invocable only once every individual
\* device is subscribed and every configured device is in the registry; so
\* an update call never finds the registry half built: it reports a name
\* as unknown only if the configuration does not have it.
C19_ServicesAfterRegistry ==
    /\ services # {}
          => /\ pc = "done"
             /\ services = {"update_colors", "update_message"}
             /\ DOMAIN hassData = Configured
             /\ \A n \in DOMAIN hassData :
                   IF n \in NodeNames /\ ~hassData[n].is_group
                      THEN IndividualAt(n) ELSE GroupAt(n)
    /\ (MessageCall \/ ColorsCall)
          => /\ call.op \in services
             /\ Registered <=> call.data.node_name \in Configured
             /\ outcome = "logged_error" => call.data.node_name \notin Configured

C19_Witness ==
    /\ pc = "done"
    /\ nodes = <<[name |-> "kitchen", group_name |-> Some("upstairs")],
                 [name |-> "den", group_name |-> Some("upstairs")]>>
    /\ MessageCall
    /\ call.data.node_name = "upstairs"
    /\ Registered
    /\ outcome = "returned"
    /\ Len(subs) = 2


\* C20: when setup has failed because a subscription was not accepted, no
\* device subscribed earlier in that setup is still wired: a state message
\* handled after the failure fires no button-press event.
C20_NothingWiredAfterFailure ==
    (pc = "failed" /\ StateMessage) => fired = << >>

====
